---- MODULE Spec2Model ----
(***************************************************************************)
(* tapi, lib/Core/Registry.cpp: the Registry holds an ordered list of      *)
(* Readers and an ordered list of Writers and routes every request to the  *)
(* first component that accepts it.                                        *)
(*                                                                         *)
(* Registry.cpp is translated statement by statement.  The Readers, the    *)
(* Writers, the Document Handlers, Registry::add and llvm::identify_magic  *)
(* live outside Registry.cpp; they are modelled from the specification     *)
(* (sections 4.1, 4.4, 4.5, 4.6), together with a stub reader (section 8,  *)
(* "registering a stub reader before/after the real one") whose accepted   *)
(* inputs overlap those of the real readers.                               *)
(***************************************************************************)
EXTENDS Naturals, Sequences, FiniteSets, TLC

VARIABLES
  _readers,   \* Registry::_readers, in registration order
  _writers,   \* Registry::_writers, in registration order
  op,         \* the dispatch method that ran last ("none" before the first)
  arg,        \* its arguments
  ret,        \* its return value
  calls,      \* the component methods it invoked, in order
  os,         \* the raw_ostream it wrote to
  first,      \* the first of the getFileType calls on the current buffer
  phase,      \* "setup" | "dispatch": registration, then concurrent requests
  regReaders, \* _readers as registration left it
  regWriters, \* _writers as registration left it
  req         \* the requests in flight, one per thread

vars == <<_readers, _writers, op, arg, ret, calls, os, first,
          phase, regReaders, regWriters, req>>

(***************************************************************************)
(* Bounds of the model.                                                    *)
(***************************************************************************)
MaxReaders == 3
MaxWriters == 2

(***************************************************************************)
(* FileType, buffers, Files, errors.                                       *)
(***************************************************************************)
Invalid == "Invalid"

FileTypes ==
  {"MachO_DynamicLibrary", "TBD_V1", "TBD_V2", "API_V1", "Configuration_V1"}

\* FileType::All, the default `types` of Reader::canRead.
All == FileTypes

\* The `types` masks a caller passes to Registry::canRead.
TypeSets ==
  {All, {"MachO_DynamicLibrary"}, {"TBD_V1", "TBD_V2", "API_V1"}, {}}

\* A buffer: its leading bytes, the schema tag a text document declares, and
\* whether the rest of its content is well formed.
Buf(lead, tag, sound) == [lead |-> lead, tag |-> tag, sound |-> sound]

Buffers ==
  { Buf("MH_DYLIB", "none", TRUE),
    Buf("MH_DYLIB", "none", FALSE),
    Buf("text", "stub_v1", TRUE),
    Buf("text", "stub_v2", TRUE),
    Buf("text", "stub_v2", FALSE),
    Buf("text", "api_v1", TRUE),
    Buf("text", "configuration_v1", TRUE),
    Buf("junk", "none", FALSE) }

\* The read options of a request: its ReadFlags and its ArchitectureSet.
ReadOptions ==
  { [flags |-> "All", arches |-> {}],
    [flags |-> "Symbols", arches |-> {"arm64"}] }

\* A File handed to the write path.
FileOf(type, reexports, sound) ==
  [type |-> type, path |-> "/out", reexports |-> reexports, sound |-> sound]

Files ==
  { FileOf("TBD_V1", TRUE, TRUE),
    FileOf("TBD_V2", FALSE, TRUE),
    FileOf("TBD_V2", FALSE, FALSE),
    FileOf("API_V1", FALSE, TRUE),
    FileOf("Configuration_V1", FALSE, TRUE),
    FileOf("MachO_DynamicLibrary", TRUE, TRUE),
    FileOf("MachO_DynamicLibrary", FALSE, TRUE) }

\* llvm::Error and llvm::Expected<T>.
Err(origin, msg) == [origin |-> origin, msg |-> msg]
Ok(v) == [ok |-> TRUE, val |-> v]
Fail(e) == [ok |-> FALSE, err |-> e]
Success == [ok |-> TRUE]

(***************************************************************************)
(* The components behind the Reader and Writer interfaces.                 *)
(***************************************************************************)
identify_magic(data) ==
  IF data.lead = "MH_DYLIB" THEN "macho_dynamically_linked_shared_lib"
  ELSE "unknown"

MachOMagics == {"macho_dynamically_linked_shared_lib"}

HandlerType(h) ==
  CASE h = "stub_v1" -> "TBD_V1"
    [] h = "stub_v2" -> "TBD_V2"
    [] h = "api_v1" -> "API_V1"
    [] h = "configuration_v1" -> "Configuration_V1"

\* The set of handlers of a handler list that recognize a schema tag.
Recognizing(handlers, tag) ==
  {i \in 1..Len(handlers) : handlers[i] = tag}

Min(S) == CHOOSE x \in S : \A y \in S : x <= y

MachODylibReader == [class |-> "MachODylibReader", handlers |-> <<>>]
StubReader == [class |-> "StubReader", handlers |-> <<>>]
YAMLReaderOf(handlers) == [class |-> "YAMLReader", handlers |-> handlers]

ReexportFileWriter == [class |-> "ReexportFileWriter", handlers |-> <<>>]
YAMLWriterOf(handlers) == [class |-> "YAMLWriter", handlers |-> handlers]

\* Reader::canRead(magic, buffer, types)
ReaderCanRead(reader, magic, memBuffer, types) ==
  CASE reader.class = "MachODylibReader" ->
         magic \in MachOMagics /\ "MachO_DynamicLibrary" \in types
    [] reader.class = "YAMLReader" ->
         /\ memBuffer.lead = "text"
         /\ \E i \in Recognizing(reader.handlers, memBuffer.tag) :
              HandlerType(reader.handlers[i]) \in types
    [] reader.class = "StubReader" ->
         \/ memBuffer.tag = "stub_v2" /\ "TBD_V2" \in types
         \/ memBuffer.tag = "api_v1" /\ "API_V1" \in types
         \/ magic \in MachOMagics /\ "MachO_DynamicLibrary" \in types

\* Reader::getFileType(magic, buffer)
ReaderGetFileType(reader, magic, memBuffer) ==
  CASE reader.class = "MachODylibReader" ->
         IF magic \notin MachOMagics THEN Ok(Invalid)
         ELSE IF ~memBuffer.sound
              THEN Fail(Err("MachODylibReader", "malformed binary"))
              ELSE Ok("MachO_DynamicLibrary")
    [] reader.class = "YAMLReader" ->
         IF memBuffer.lead = "text"
            /\ Recognizing(reader.handlers, memBuffer.tag) # {}
         THEN Ok(HandlerType(
                reader.handlers[Min(Recognizing(reader.handlers,
                                                memBuffer.tag))]))
         ELSE Ok(Invalid)
    [] reader.class = "StubReader" ->
         IF memBuffer.tag = "stub_v2" THEN Ok("TBD_V2")
         ELSE IF memBuffer.tag = "api_v1"
              THEN Fail(Err("StubReader", "unsupported file type"))
              ELSE IF magic \in MachOMagics THEN Ok("MachO_DynamicLibrary")
                   ELSE Ok(Invalid)

\* Reader::readFile(buffer, flags, arches)
ReaderReadFile(reader, memBuffer, readFlags, arches) ==
  LET file(t) == [type |-> t, reader |-> reader.class,
                  flags |-> readFlags, arches |-> arches]
  IN CASE reader.class = "MachODylibReader" ->
            IF memBuffer.sound THEN Ok(file("MachO_DynamicLibrary"))
            ELSE Fail(Err("MachODylibReader", "malformed binary"))
       [] reader.class = "YAMLReader" ->
            IF memBuffer.sound
               /\ Recognizing(reader.handlers, memBuffer.tag) # {}
            THEN Ok(file(HandlerType(memBuffer.tag)))
            ELSE Fail(Err("YAMLReader", "schema mismatch"))
       [] reader.class = "StubReader" ->
            IF memBuffer.tag = "api_v1"
            THEN Fail(Err("StubReader", "unsupported file type"))
            ELSE Ok(file("TBD_V2"))

\* Writer::canWrite(file)
WriterCanWrite(writer, file) ==
  CASE writer.class = "YAMLWriter" ->
         \E i \in 1..Len(writer.handlers) :
           HandlerType(writer.handlers[i]) = file.type
    [] writer.class = "ReexportFileWriter" -> file.reexports

\* Writer::writeFile(os, file): the error it returns and the stream after it.
WriterWriteFile(writer, stream, file) ==
  LET doc(tag) == [writer |-> writer.class, tag |-> tag, path |-> file.path]
  IN CASE writer.class = "YAMLWriter" ->
            IF file.sound
            THEN [res |-> Success,
                  os |-> Append(stream, doc(
                    CHOOSE h \in {"stub_v1", "stub_v2", "api_v1",
                                  "configuration_v1"} :
                      HandlerType(h) = file.type))]
            ELSE [res |-> Fail(Err("YAMLWriter", "cannot encode")),
                  os |-> stream]
       [] writer.class = "ReexportFileWriter" ->
            [res |-> Success, os |-> Append(stream, doc("reexports"))]

(***************************************************************************)
(* Registry.cpp.  Every dispatch method yields its return value together   *)
(* with the component methods it invoked (`calls`), in order.              *)
(***************************************************************************)
Call(idx, fn, a) == [idx |-> idx, fn |-> fn, arg |-> a]

UnsupportedFileType == Err("Registry", "unsupported file type")

NoErrorCode == "no_error"
errorCodeToError(ec) == Err("std::error_code", ec)

\* Variant: the caller's mask is dropped and every type is allowed.
canReadTypes_all(types) == All

\* The `types` Registry::canRead hands to each reader (line 35).
canReadTypes(types) == types

RECURSIVE canReadFrom(_, _, _, _, _)
canReadFrom(rs, i, magic, memBuffer, types) ==
  IF i > Len(rs) THEN [ret |-> FALSE, calls |-> <<>>]
  ELSE LET q == Call(i, "canRead", [magic |-> magic, buf |-> memBuffer,
                                    types |-> canReadTypes(types)])
       IN IF ReaderCanRead(rs[i], magic, memBuffer, canReadTypes(types))
          THEN [ret |-> TRUE, calls |-> <<q>>]
          ELSE LET rest == canReadFrom(rs, i + 1, magic, memBuffer, types)
               IN [ret |-> rest.ret, calls |-> <<q>> \o rest.calls]

canRead(rs, memBuffer, types) ==
  canReadFrom(rs, 1, identify_magic(memBuffer), memBuffer, types)

\* Variant: a definite answer does not end the loop.
getFileTypeVerdict_neverFound(fileType) ==
  IF ~fileType.ok THEN "error" ELSE "next"

\* Variant: a reader's error is skipped like an Invalid answer.
getFileTypeVerdict_skipsError(fileType) ==
  IF fileType.ok /\ fileType.val # Invalid THEN "found" ELSE "next"

\* Lines 48-51: what one reader's answer makes the loop do.
\* "error" and "found" return, "next" goes on to the following reader.
getFileTypeVerdict(fileType) ==
  IF ~fileType.ok THEN "error"
  ELSE IF fileType.val # Invalid THEN "found"
  ELSE "next"

\* Variant: the reader's error is rewrapped as an error of the Registry.
takeError_rewrapped(expected) == Err("Registry", expected.err.msg)

\* Expected<FileType>::takeError() (line 49)
takeError(expected) == expected.err

RECURSIVE getFileTypeFrom(_, _, _, _)
getFileTypeFrom(rs, i, magic, memBuffer) ==
  IF i > Len(rs) THEN [ret |-> Ok(Invalid), calls |-> <<>>]
  ELSE LET fileType == ReaderGetFileType(rs[i], magic, memBuffer)
           q == Call(i, "getFileType", [magic |-> magic, buf |-> memBuffer])
           verdict == getFileTypeVerdict(fileType)
       IN IF verdict = "error"
          THEN [ret |-> Fail(takeError(fileType)), calls |-> <<q>>]
          ELSE IF verdict = "found"
          THEN [ret |-> fileType, calls |-> <<q>>]
          ELSE LET rest == getFileTypeFrom(rs, i + 1, magic, memBuffer)
               IN [ret |-> rest.ret, calls |-> <<q>> \o rest.calls]

getFileType(rs, memBuffer) ==
  getFileTypeFrom(rs, 1, identify_magic(memBuffer), memBuffer)

RECURSIVE canWriteFrom(_, _, _)
canWriteFrom(ws, i, file) ==
  IF i > Len(ws) THEN [ret |-> FALSE, calls |-> <<>>]
  ELSE LET q == Call(i, "canWrite", [file |-> file])
       IN IF WriterCanWrite(ws[i], file)
          THEN [ret |-> TRUE, calls |-> <<q>>]
          ELSE LET rest == canWriteFrom(ws, i + 1, file)
               IN [ret |-> rest.ret, calls |-> <<q>> \o rest.calls]

canWrite(ws, file) == canWriteFrom(ws, 1, file)

RECURSIVE readFileFrom(_, _, _, _, _, _)
readFileFrom(rs, i, fileType, memBuffer, readFlags, arches) ==
  IF i > Len(rs) THEN [ret |-> Fail(UnsupportedFileType), calls |-> <<>>]
  ELSE LET q == Call(i, "canRead", [magic |-> fileType, buf |-> memBuffer,
                                    types |-> All])
       IN IF ~ReaderCanRead(rs[i], fileType, memBuffer, All)
          THEN LET rest == readFileFrom(rs, i + 1, fileType, memBuffer,
                                        readFlags, arches)
               IN [ret |-> rest.ret, calls |-> <<q>> \o rest.calls]
          ELSE [ret |-> ReaderReadFile(rs[i], memBuffer, readFlags, arches),
                calls |-> <<q, Call(i, "readFile",
                                    [buf |-> memBuffer, flags |-> readFlags,
                                     arches |-> arches])>>]

\* Variant: a reader whose readFile fails is passed over for a later one.
RECURSIVE readFileFrom_fallsThrough(_, _, _, _, _, _)
readFileFrom_fallsThrough(rs, i, fileType, memBuffer, readFlags, arches) ==
  IF i > Len(rs) THEN [ret |-> Fail(UnsupportedFileType), calls |-> <<>>]
  ELSE LET q == Call(i, "canRead", [magic |-> fileType, buf |-> memBuffer,
                                    types |-> All])
           c == Call(i, "readFile", [buf |-> memBuffer, flags |-> readFlags,
                                     arches |-> arches])
           rest == readFileFrom_fallsThrough(rs, i + 1, fileType, memBuffer,
                                             readFlags, arches)
           file == ReaderReadFile(rs[i], memBuffer, readFlags, arches)
       IN IF ~ReaderCanRead(rs[i], fileType, memBuffer, All)
          THEN [ret |-> rest.ret, calls |-> <<q>> \o rest.calls]
          ELSE IF file.ok THEN [ret |-> file, calls |-> <<q, c>>]
          ELSE [ret |-> rest.ret, calls |-> <<q, c>> \o rest.calls]

readFile_fallsThrough(rs, memBuffer, readFlags, arches) ==
  readFileFrom_fallsThrough(rs, 1, identify_magic(memBuffer), memBuffer,
                            readFlags, arches)

\* Variant: the loop starts at the second reader.
readFile_skipsFirst(rs, memBuffer, readFlags, arches) ==
  readFileFrom(rs, 2, identify_magic(memBuffer), memBuffer, readFlags, arches)

readFile(rs, memBuffer, readFlags, arches) ==
  readFileFrom(rs, 1, identify_magic(memBuffer), memBuffer, readFlags, arches)

RECURSIVE writeFileFrom(_, _, _, _)
writeFileFrom(ws, i, stream, file) ==
  IF i > Len(ws)
  THEN [ret |-> Fail(UnsupportedFileType), calls |-> <<>>, os |-> stream]
  ELSE LET q == Call(i, "canWrite", [file |-> file])
       IN IF ~WriterCanWrite(ws[i], file)
          THEN LET rest == writeFileFrom(ws, i + 1, stream, file)
               IN [ret |-> rest.ret, calls |-> <<q>> \o rest.calls,
                   os |-> rest.os]
          ELSE LET w == WriterWriteFile(ws[i], stream, file)
               IN [ret |-> w.res,
                   calls |-> <<q, Call(i, "writeFile", [file |-> file])>>,
                   os |-> w.os]

\* Variant: the writers are tried from the last registered to the first.
writeFile_lastFirst(ws, stream, file) ==
  writeFileFrom([i \in 1..Len(ws) |-> ws[Len(ws) + 1 - i]], 1, stream, file)

\* Registry::writeFile(raw_ostream &os, const File *file)
writeFile(ws, stream, file) == writeFileFrom(ws, 1, stream, file)

\* raw_fd_ostream::close(): a failure is recorded in the stream's own error
\* state; the std::error_code the constructor was given is not written again.
close(ec, closeError) == [ec |-> ec, streamError |-> closeError]

\* Registry::writeFile(const File *file).  openError and closeError are what
\* the operating system answers to the open and to the close of the stream.
writeFilePath(ws, file, openError, closeError) ==
  LET ec == openError   \* line 84: set by the raw_fd_ostream constructor
  IN IF ec # NoErrorCode
     THEN [ret |-> Fail(errorCodeToError(ec)), calls |-> <<>>, os |-> <<>>,
           streamError |-> NoErrorCode]
     ELSE LET w == writeFile(ws, <<>>, file)
          IN IF ~w.ret.ok
             THEN [ret |-> w.ret, calls |-> w.calls, os |-> w.os,
                   streamError |-> NoErrorCode]
             ELSE LET c == close(ec, closeError)
                  IN [ret |-> IF c.ec # NoErrorCode
                              THEN Fail(errorCodeToError(c.ec))
                              ELSE Success,
                      calls |-> w.calls, os |-> w.os,
                      streamError |-> c.streamError]

(***************************************************************************)
(* Registration.                                                           *)
(***************************************************************************)
\* Registry::add(std::unique_ptr<Reader>) and add(std::unique_ptr<Writer>)
add(list, component) == Append(list, component)

\* The handlers addYAMLReaders gives the YAMLReader, in order.
YAMLReaderHandlers == <<"stub_v1", "stub_v2", "api_v1", "configuration_v1">>

\* Variant: the api v1 handler is not registered.
YAMLWriterHandlers_withoutAPI == <<"stub_v1", "stub_v2">>

\* The handlers addYAMLWriters gives the YAMLWriter, in order.
YAMLWriterHandlers == <<"stub_v1", "stub_v2", "api_v1">>

addBinaryReaders(rs) == add(rs, MachODylibReader)
addYAMLReaders(rs) == add(rs, YAMLReaderOf(YAMLReaderHandlers))
addYAMLWriters(ws) == add(ws, YAMLWriterOf(YAMLWriterHandlers))
addReexportWriters(ws) == add(ws, ReexportFileWriter)

(***************************************************************************)
(* One thread: registration and dispatch calls, one at a time.  A call     *)
(* leaves its record (op, arg, ret, calls, os) until the caller drops the  *)
(* result (Return).                                                        *)
(***************************************************************************)
NoCall == [none |-> TRUE]

Threads == {1, 2}
Idle == [pc |-> "idle"]

Init ==
  /\ _readers = <<>>
  /\ _writers = <<>>
  /\ op = "none"
  /\ arg = NoCall
  /\ ret = NoCall
  /\ calls = <<>>
  /\ os = <<>>
  /\ first = <<>>
  /\ phase = "setup"
  /\ regReaders = <<>>
  /\ regWriters = <<>>
  /\ req = [t \in Threads |-> Idle]

UnchangedThreads == UNCHANGED <<phase, regReaders, regWriters, req>>

\* A registration: the lists change.
Registered(rs, ws) ==
  /\ op = "none"
  /\ _readers' = rs
  /\ _writers' = ws
  /\ UNCHANGED <<op, arg, ret, calls, os>>
  /\ first' = <<>>
  /\ UnchangedThreads

AddBinaryReaders ==
  /\ Len(_readers) < MaxReaders
  /\ Registered(addBinaryReaders(_readers), _writers)

AddYAMLReaders ==
  /\ Len(_readers) < MaxReaders
  /\ Registered(addYAMLReaders(_readers), _writers)

AddStubReader ==
  /\ Len(_readers) < MaxReaders
  /\ Registered(add(_readers, StubReader), _writers)

AddYAMLWriters ==
  /\ Len(_writers) < MaxWriters
  /\ Registered(_readers, addYAMLWriters(_writers))

AddReexportWriters ==
  /\ Len(_writers) < MaxWriters
  /\ Registered(_readers, addReexportWriters(_writers))

\* A dispatch call has returned r for the arguments a.
Returned(name, a, r, stream) ==
  /\ op = "none"
  /\ op' = name
  /\ arg' = a
  /\ ret' = r.ret
  /\ calls' = r.calls
  /\ os' = stream
  /\ UNCHANGED <<_readers, _writers>>
  /\ UnchangedThreads

CanRead ==
  \E b \in Buffers, t \in TypeSets :
    /\ Returned("canRead", [buf |-> b, types |-> t],
                canRead(_readers, b, t), <<>>)
    /\ first' = <<>>

GetFileType ==
  \E b \in Buffers :
    LET r == getFileType(_readers, b)
    IN /\ Returned("getFileType", [buf |-> b], r, <<>>)
       /\ first' = IF first # <<>> /\ first[1].buf = b
                   THEN <<[first[1] EXCEPT !.again = TRUE]>>
                   ELSE <<[buf |-> b, ret |-> r.ret, again |-> FALSE]>>

ReadFile ==
  \E b \in Buffers, o \in ReadOptions :
    /\ Returned("readFile",
                [buf |-> b, flags |-> o.flags, arches |-> o.arches],
                readFile(_readers, b, o.flags, o.arches), <<>>)
    /\ first' = <<>>

CanWrite ==
  \E f \in Files :
    /\ Returned("canWrite", [file |-> f], canWrite(_writers, f), <<>>)
    /\ first' = <<>>

\* What the caller's stream holds before the call.
Streams == {<<>>, <<[writer |-> "caller", tag |-> "header", path |-> ""]>>}

WriteFile ==
  \E f \in Files, s \in Streams :
    LET r == writeFile(_writers, s, f)
    IN /\ Returned("writeFile", [file |-> f, os |-> s], r, r.os)
       /\ first' = <<>>

ErrorCodes == {NoErrorCode, "io_error"}

WriteFilePath ==
  \E f \in Files, o \in ErrorCodes, c \in ErrorCodes :
    LET r == writeFilePath(_writers, f, o, c)
    IN /\ Returned("writeFilePath",
                   [file |-> f, openError |-> o, closeError |-> c,
                    streamError |-> r.streamError], r, r.os)
       /\ first' = <<>>

\* The caller drops the result of the call.
Return ==
  /\ op # "none"
  /\ op' = "none"
  /\ arg' = NoCall
  /\ ret' = NoCall
  /\ calls' = <<>>
  /\ os' = <<>>
  /\ first' = IF first = <<>> THEN <<>>
              ELSE <<[first[1] EXCEPT !.again = FALSE]>>
  /\ UNCHANGED <<_readers, _writers>>
  /\ UnchangedThreads

Next ==
  \/ AddBinaryReaders
  \/ AddYAMLReaders
  \/ AddStubReader
  \/ AddYAMLWriters
  \/ AddReexportWriters
  \/ CanRead
  \/ GetFileType
  \/ ReadFile
  \/ CanWrite
  \/ WriteFile
  \/ WriteFilePath
  \/ Return

Spec == Init /\ [][Next]_vars

(***************************************************************************)
(* Properties of the read path.                                            *)
(***************************************************************************)
\* The readers of rs that accept buffer b under the mask `types`.
Accepting(rs, b, types) ==
  {i \in 1..Len(rs) : ReaderCanRead(rs[i], identify_magic(b), b, types)}

\* Reader i's answer to getFileType on buffer b.
Answer(rs, i, b) == ReaderGetFileType(rs[i], identify_magic(b), b)

\* The positions in `calls` of the invocations of component method fn.
Invocations(fn) == {k \in 1..Len(calls) : calls[k].fn = fn}

RegistryUnsupported == Fail(Err("Registry", "unsupported file type"))

\* C1: readFile delegates to the first reader, in registration order, whose
\* canRead accepts the sniffed kind and the buffer: that reader's readFile is
\* the only one invoked, with the caller's buffer, flags and architectures,
\* and its result, a failure included, is the result of Registry::readFile.
C1_FirstAcceptingReaderReads ==
  op = "readFile" =>
    LET acc == Accepting(_readers, arg.buf, All)
    IN acc # {} =>
         /\ ret = ReaderReadFile(_readers[Min(acc)], arg.buf, arg.flags,
                                 arg.arches)
         /\ Cardinality(Invocations("readFile")) = 1
         /\ \A k \in Invocations("readFile") :
              /\ calls[k].idx = Min(acc)
              /\ calls[k].arg = [buf |-> arg.buf, flags |-> arg.flags,
                                 arches |-> arg.arches]
         /\ \A k \in Invocations("canRead") :
              calls[k].arg.magic = identify_magic(arg.buf)

\* C1 witness: two readers accept the buffer, the first of them fails to
\* read it and the second would have read it.
C1_Witness ==
  /\ op = "readFile"
  /\ ~ret.ok
  /\ \E i, j \in Accepting(_readers, arg.buf, All) :
       /\ i < j
       /\ i = Min(Accepting(_readers, arg.buf, All))
       /\ ReaderReadFile(_readers[j], arg.buf, arg.flags, arg.arches).ok

\* C2: if no registered reader accepts the buffer (the empty list included),
\* readFile fails with the Registry's "unsupported file type" error and
\* canRead returns false; readFile returns that error only when no reader
\* accepted.
C2_UnsupportedIffNoReaderAccepts ==
  /\ op = "readFile" =>
       /\ Accepting(_readers, arg.buf, All) = {} => ret = RegistryUnsupported
       /\ ret = RegistryUnsupported => Accepting(_readers, arg.buf, All) = {}
  /\ op = "canRead" =>
       (Accepting(_readers, arg.buf, All) = {} => ret = FALSE)

\* C2 witness: readers are registered, none accepts, readFile is refused.
C2_Witness ==
  /\ op = "readFile"
  /\ Len(_readers) >= 2
  /\ Accepting(_readers, arg.buf, All) = {}
  /\ ret = RegistryUnsupported

\* The list rs in the order given by the permutation perm of its indices.
Permuted(rs, perm) == [i \in 1..Len(rs) |-> rs[perm[i]]]

\* C3: canRead returns true iff some registered reader accepts the sniffed
\* kind, the buffer and the caller's allowedTypes; every reader asked is asked
\* with exactly that mask; the result is the same for every order of the
\* readers.
C3_CanReadIffSomeReaderAccepts ==
  op = "canRead" =>
    /\ ret = (Accepting(_readers, arg.buf, arg.types) # {})
    /\ \A k \in 1..Len(calls) :
         /\ calls[k].fn = "canRead"
         /\ calls[k].arg = [magic |-> identify_magic(arg.buf),
                            buf |-> arg.buf, types |-> arg.types]
    /\ \A perm \in Permutations(1..Len(_readers)) :
         canRead(Permuted(_readers, perm), arg.buf, arg.types).ret = ret

\* C3 witness: a restricted mask decides the answer: the readers reject a
\* buffer that one of them accepts when every type is allowed.
C3_Witness ==
  /\ op = "canRead"
  /\ ret = FALSE
  /\ Len(calls) >= 2
  /\ arg.types # {}
  /\ Accepting(_readers, arg.buf, All) # {}

\* The readers whose answer to getFileType is not Invalid (a type or an
\* error).
Definite(rs, b) ==
  {i \in 1..Len(rs) : ~(Answer(rs, i, b).ok /\ Answer(rs, i, b).val = Invalid)}

\* C4: getFileType asks the readers in registration order; when no reader's
\* inspection errors it returns the first answer that is not Invalid; it
\* returns Invalid exactly when every reader answers Invalid; a repeated call
\* on the same buffer with the lists unchanged returns the same FileType.
C4_FirstNonInvalidAnswer ==
  op = "getFileType" =>
    LET def == Definite(_readers, arg.buf)
    IN /\ \A k \in 1..Len(calls) :
            calls[k].idx = k /\ calls[k].fn = "getFileType"
       /\ (\A i \in 1..Len(_readers) : Answer(_readers, i, arg.buf).ok) =>
            ret = IF def = {} THEN Ok(Invalid)
                  ELSE Answer(_readers, Min(def), arg.buf)
       /\ (ret = Ok(Invalid)) <=> (def = {})
       /\ (first # <<>> /\ first[1].buf = arg.buf) => ret = first[1].ret

\* C4 witness: a repeated call, answered by a reader that is not the first.
C4_Witness ==
  /\ op = "getFileType"
  /\ first # <<>> /\ first[1].again
  /\ ret.ok /\ ret.val # Invalid
  /\ Len(calls) >= 2
  /\ Cardinality(Definite(_readers, arg.buf)) >= 2

\* The readers whose inspection of buffer b errors.
Erring(rs, b) == {i \in 1..Len(rs) : ~Answer(rs, i, b).ok}

\* C5 as stated: getFileType fails whenever any registered reader's
\* inspection errors, whatever its position and the other readers' answers.
C5_AnyReaderErrorFails ==
  op = "getFileType" => (Erring(_readers, arg.buf) # {} => ~ret.ok)

\* C5 amended: getFileType fails, with that reader's error, exactly when the
\* first reader whose answer is not Invalid errors; a reader registered after
\* one that answers a FileType is not consulted and its error does not
\* surface.
C5_FirstDefiniteErrorFails ==
  op = "getFileType" =>
    LET def == Definite(_readers, arg.buf)
    IN /\ ~ret.ok <=> (def # {} /\ Min(def) \in Erring(_readers, arg.buf))
       /\ ~ret.ok => ret = Answer(_readers, Min(def), arg.buf)
       /\ ret.ok => \A k \in 1..Len(calls) :
                      calls[k].idx \notin Erring(_readers, arg.buf)

\* C5 witness: the error of a reader that is not the first surfaces, the
\* readers before it having answered Invalid.
C5_Witness ==
  /\ op = "getFileType"
  /\ ~ret.ok
  /\ Len(calls) >= 2

(***************************************************************************)
(* Properties of the write path.                                           *)
(***************************************************************************)
\* The writers of ws that accept the File.
AcceptingWriters(ws, file) ==
  {i \in 1..Len(ws) : WriterCanWrite(ws[i], file)}

\* C6: writeFile(stream, file) delegates to the first writer, in registration
\* order, whose canWrite accepts the file and invokes no other writer's
\* writeFile; it fails with the Registry's "unsupported file type" error
\* exactly when canWrite(file) is false, that is when no writer accepts, and
\* then the stream is left as it was.
C6_FirstAcceptingWriterWrites ==
  /\ op = "writeFile" =>
       LET acc == AcceptingWriters(_writers, arg.file)
       IN /\ acc # {} =>
               LET w == WriterWriteFile(_writers[Min(acc)], arg.os, arg.file)
               IN /\ ret = w.res
                  /\ os = w.os
                  /\ Cardinality(Invocations("writeFile")) = 1
                  /\ \A k \in Invocations("writeFile") :
                       calls[k].idx = Min(acc)
          /\ (ret = RegistryUnsupported) <=> (acc = {})
          /\ (ret = RegistryUnsupported) <=>
               ~canWrite(_writers, arg.file).ret
          /\ acc = {} => os = arg.os /\ Invocations("writeFile") = {}
  /\ op = "canWrite" =>
       ret = (AcceptingWriters(_writers, arg.file) # {})

\* C6 witness: two writers accept the File and the caller's stream already
\* holds text.
C6_Witness ==
  /\ op = "writeFile"
  /\ arg.os # <<>>
  /\ Cardinality(AcceptingWriters(_writers, arg.file)) >= 2
  /\ _writers[1] # _writers[2]
  /\ ret.ok

\* The delegated write of the path variant succeeds.
DelegatedWriteSucceeds ==
  /\ AcceptingWriters(_writers, arg.file) # {}
  /\ WriterWriteFile(
       _writers[Min(AcceptingWriters(_writers, arg.file))], <<>>,
       arg.file).res.ok

\* C7: in writeFile(file), when the stream opens and the delegated write
\* succeeds but closing the stream fails, an error is returned; success is
\* reported only if the open, the write and the close all succeeded.
C7_CloseErrorSurfaces ==
  op = "writeFilePath" =>
    /\ (/\ arg.openError = NoErrorCode
        /\ DelegatedWriteSucceeds
        /\ arg.closeError # NoErrorCode) => ~ret.ok
    /\ ret.ok => /\ arg.openError = NoErrorCode
                 /\ DelegatedWriteSucceeds
                 /\ arg.closeError = NoErrorCode

\* The errors of the components the last call consulted.
ComponentErrors ==
  CASE op = "getFileType" ->
         {Answer(_readers, calls[k].idx, arg.buf).err :
            k \in {j \in 1..Len(calls) :
                     ~Answer(_readers, calls[j].idx, arg.buf).ok}}
    [] op = "readFile" ->
         {ReaderReadFile(_readers[calls[k].idx], arg.buf, arg.flags,
                         arg.arches).err :
            k \in {j \in Invocations("readFile") :
                     ~ReaderReadFile(_readers[calls[j].idx], arg.buf,
                                     arg.flags, arg.arches).ok}}
    [] op = "writeFile" ->
         {WriterWriteFile(_writers[calls[k].idx], arg.os, arg.file).res.err :
            k \in {j \in Invocations("writeFile") :
                     ~WriterWriteFile(_writers[calls[j].idx], arg.os,
                                      arg.file).res.ok}}
    [] op = "writeFilePath" ->
         {WriterWriteFile(_writers[calls[k].idx], <<>>, arg.file).res.err :
            k \in {j \in Invocations("writeFile") :
                     ~WriterWriteFile(_writers[calls[j].idx], <<>>,
                                      arg.file).res.ok}}
    [] OTHER -> {}

\* No component accepted the input of the last call.
NoneAccepted ==
  CASE op = "readFile" -> Accepting(_readers, arg.buf, All) = {}
    [] op \in {"writeFile", "writeFilePath"} ->
         AcceptingWriters(_writers, arg.file) = {}
    [] OTHER -> FALSE

\* C8: an error E returned by the reader readFile chose, by a reader
\* getFileType consulted or by the writer writeFile chose (stream or path
\* variant) is returned as exactly E; the Registry's own error is
\* "unsupported file type", returned only when no component accepted the
\* input; the path variant may besides return the error of the stream's open.
C8_ErrorsPropagateUnchanged ==
  op \in {"getFileType", "readFile", "writeFile", "writeFilePath"} =>
    /\ \A e \in ComponentErrors : ret = Fail(e)
    /\ ~ret.ok =>
         \/ ret.err \in ComponentErrors
         \/ ret = RegistryUnsupported /\ NoneAccepted
         \/ /\ op = "writeFilePath"
            /\ arg.openError # NoErrorCode
            /\ ret = Fail(errorCodeToError(arg.openError))

\* C8 witness: a reader's error that carries the very words of the Registry's
\* own error comes back as the reader's, from getFileType.
C8_Witness ==
  /\ op = "getFileType"
  /\ ~ret.ok
  /\ ret.err = Err("StubReader", "unsupported file type")
  /\ Len(calls) >= 2

\* The readers and writers of the structured-text family in the lists.
YAMLReaders == {i \in 1..Len(_readers) : _readers[i].class = "YAMLReader"}
YAMLWriters == {j \in 1..Len(_writers) : _writers[j].class = "YAMLWriter"}

IsWritableSchema(h) == h # "configuration_v1"

UnchangedCall == UNCHANGED <<op, arg, ret, calls, os, first>>

SetupRegistered(rs, ws) ==
  /\ phase = "setup"
  /\ _readers' = rs
  /\ _writers' = ws
  /\ UNCHANGED <<phase, regReaders, regWriters, req>>
  /\ UnchangedCall

SetupBinaryReaders ==
  /\ Len(_readers) < MaxReaders
  /\ SetupRegistered(addBinaryReaders(_readers), _writers)

SetupYAMLReaders ==
  /\ Len(_readers) < MaxReaders
  /\ SetupRegistered(addYAMLReaders(_readers), _writers)

SetupYAMLWriters ==
  /\ Len(_writers) < MaxWriters
  /\ SetupRegistered(_readers, addYAMLWriters(_writers))

SetupReexportWriters ==
  /\ Len(_writers) < MaxWriters
  /\ SetupRegistered(_readers, addReexportWriters(_writers))

\* Registration has finished: the lists are fully populated.
Populated ==
  /\ phase = "setup"
  /\ phase' = "dispatch"
  /\ regReaders' = _readers
  /\ regWriters' = _writers
  /\ UNCHANGED <<_readers, _writers, req>>
  /\ UnchangedCall

\* Each request works on a File of its own, written to a path of its own.
OwnFile(t, file) ==
  [file EXCEPT !.path = IF t = 1 THEN "/out1" ELSE "/out2"]

\* The requests a thread may issue.
Requests(t) ==
  { [fn |-> "canRead",
     arg |-> [buf |-> Buf("text", "stub_v2", TRUE),
              types |-> {"TBD_V1", "TBD_V2", "API_V1"}]],
    [fn |-> "getFileType", arg |-> [buf |-> Buf("MH_DYLIB", "none", FALSE)]],
    [fn |-> "getFileType", arg |-> [buf |-> Buf("text", "api_v1", TRUE)]],
    [fn |-> "readFile",
     arg |-> [buf |-> Buf("text", "stub_v2", FALSE), flags |-> "All",
              arches |-> {"arm64"}]],
    [fn |-> "canWrite",
     arg |-> [file |-> OwnFile(t, FileOf("TBD_V1", TRUE, TRUE))]],
    [fn |-> "writeFile",
     arg |-> [file |-> OwnFile(t, FileOf("MachO_DynamicLibrary", TRUE, TRUE)),
              os |-> <<>>]],
    [fn |-> "writeFilePath",
     arg |-> [file |-> OwnFile(t, FileOf("TBD_V2", FALSE, TRUE)),
              openError |-> NoErrorCode, closeError |-> "io_error"]],
    [fn |-> "writeFilePath",
     arg |-> [file |-> OwnFile(t, FileOf("TBD_V2", FALSE, FALSE)),
              openError |-> NoErrorCode, closeError |-> NoErrorCode]],
    [fn |-> "writeFilePath",
     arg |-> [file |-> OwnFile(t, FileOf("TBD_V1", TRUE, TRUE)),
              openError |-> "io_error", closeError |-> NoErrorCode]] }

\* Thread t enters a dispatch method.  writeFile(file) opens its stream
\* first (lines 83-86).  `during` records that the request started while
\* another one was in the middle of its loop.
Begin(t) ==
  /\ phase = "dispatch"
  /\ req[t].pc = "idle"
  /\ \E r \in Requests(t) :
       LET during == \E u \in Threads \ {t} :
                       req[u].pc = "loop" /\ req[u].i > 1
           openFails == r.fn = "writeFilePath"
                        /\ r.arg.openError # NoErrorCode
       IN req' = [req EXCEPT ![t] =
                    [pc |-> IF openFails THEN "done" ELSE "loop",
                     fn |-> r.fn, arg |-> r.arg, i |-> 1,
                     ret |-> IF openFails
                             THEN Fail(errorCodeToError(r.arg.openError))
                             ELSE NoCall,
                     os |-> IF r.fn = "writeFile" THEN r.arg.os ELSE <<>>,
                     during |-> during]]
  /\ UNCHANGED <<_readers, _writers, phase, regReaders, regWriters>>
  /\ UnchangedCall

\* Variant: the loop takes the component out of the list (std::move).
afterIteration_movesOut(list, i) ==
  [k \in 1..(Len(list) - 1) |-> IF k < i THEN list[k] ELSE list[k + 1]]

\* The list after one iteration of `for (const auto &x : list)` in a const
\* method (lines 34, 46, 58, 72, 97).
afterIteration(list, i) == list

\* The request r after one iteration of its loop over the list `list`:
\* the loop test, then lines 35-36, 47-51, 59-60, 73-75 or 98-100 (with lines
\* 88-93 for writeFile(file)).
Iterated(r, list) ==
  LET done(v) == [r EXCEPT !.pc = "done", !.ret = v]
      next == [r EXCEPT !.i = r.i + 1]
  IN CASE r.fn = "canRead" ->
            IF r.i > Len(list) THEN done(FALSE)
            ELSE IF ReaderCanRead(list[r.i], identify_magic(r.arg.buf),
                                  r.arg.buf, canReadTypes(r.arg.types))
                 THEN done(TRUE) ELSE next
       [] r.fn = "getFileType" ->
            IF r.i > Len(list) THEN done(Ok(Invalid))
            ELSE LET fileType ==
                       ReaderGetFileType(list[r.i], identify_magic(r.arg.buf),
                                         r.arg.buf)
                     verdict == getFileTypeVerdict(fileType)
                 IN IF verdict = "error" THEN done(Fail(takeError(fileType)))
                    ELSE IF verdict = "found" THEN done(fileType) ELSE next
       [] r.fn = "readFile" ->
            IF r.i > Len(list) THEN done(Fail(UnsupportedFileType))
            ELSE IF ReaderCanRead(list[r.i], identify_magic(r.arg.buf),
                                  r.arg.buf, All)
                 THEN done(ReaderReadFile(list[r.i], r.arg.buf, r.arg.flags,
                                          r.arg.arches))
                 ELSE next
       [] r.fn = "canWrite" ->
            IF r.i > Len(list) THEN done(FALSE)
            ELSE IF WriterCanWrite(list[r.i], r.arg.file)
                 THEN done(TRUE) ELSE next
       [] r.fn = "writeFile" ->
            IF r.i > Len(list) THEN done(Fail(UnsupportedFileType))
            ELSE IF WriterCanWrite(list[r.i], r.arg.file)
                 THEN LET w == WriterWriteFile(list[r.i], r.os, r.arg.file)
                      IN [done(w.res) EXCEPT !.os = w.os]
                 ELSE next
       [] r.fn = "writeFilePath" ->
            IF r.i > Len(list) THEN done(Fail(UnsupportedFileType))
            ELSE IF WriterCanWrite(list[r.i], r.arg.file)
                 THEN LET w == WriterWriteFile(list[r.i], r.os, r.arg.file)
                          c == close(r.arg.openError, r.arg.closeError)
                      IN [done(IF ~w.res.ok THEN w.res
                               ELSE IF c.ec # NoErrorCode
                                    THEN Fail(errorCodeToError(c.ec))
                                    ELSE Success)
                            EXCEPT !.os = w.os]
                 ELSE next

OnReaders(fn) == fn \in {"canRead", "getFileType", "readFile"}

\* Thread t runs one iteration of its loop.
Step(t) ==
  /\ req[t].pc = "loop"
  /\ LET onReaders == OnReaders(req[t].fn)
         list == IF onReaders THEN _readers ELSE _writers
         visited == req[t].i <= Len(list)
     IN /\ req' = [req EXCEPT ![t] = Iterated(req[t], list)]
        /\ _readers' = IF onReaders /\ visited
                       THEN afterIteration(_readers, req[t].i)
                       ELSE _readers
        /\ _writers' = IF ~onReaders /\ visited
                       THEN afterIteration(_writers, req[t].i)
                       ELSE _writers
  /\ UNCHANGED <<phase, regReaders, regWriters>>
  /\ UnchangedCall

\* The caller of thread t drops the result.
Finish(t) ==
  /\ req[t].pc = "done"
  /\ req' = [req EXCEPT ![t] = Idle]
  /\ UNCHANGED <<_readers, _writers, phase, regReaders, regWriters>>
  /\ UnchangedCall

ConcNext ==
  \/ SetupBinaryReaders
  \/ SetupYAMLReaders
  \/ SetupYAMLWriters
  \/ SetupReexportWriters
  \/ Populated
  \/ \E t \in Threads : Begin(t)
  \/ \E t \in Threads : Step(t)
  \/ \E t \in Threads : Finish(t)

ConcSpec == Init /\ [][ConcNext]_vars

\* What the request returns, and leaves in its stream, when it runs alone on
\* the lists as registration left them.
Alone(r) ==
  CASE r.fn = "canRead" ->
         [ret |-> canRead(regReaders, r.arg.buf, r.arg.types).ret,
          os |-> <<>>]
    [] r.fn = "getFileType" ->
         [ret |-> getFileType(regReaders, r.arg.buf).ret, os |-> <<>>]
    [] r.fn = "readFile" ->
         [ret |-> readFile(regReaders, r.arg.buf, r.arg.flags,
                           r.arg.arches).ret,
          os |-> <<>>]
    [] r.fn = "canWrite" ->
         [ret |-> canWrite(regWriters, r.arg.file).ret, os |-> <<>>]
    [] r.fn = "writeFile" ->
         LET w == writeFile(regWriters, r.arg.os, r.arg.file)
         IN [ret |-> w.ret, os |-> w.os]
    [] r.fn = "writeFilePath" ->
         LET w == writeFilePath(regWriters, r.arg.file, r.arg.openError,
                                r.arg.closeError)
         IN [ret |-> w.ret, os |-> w.os]

\* C9: once registration has finished, no dispatch operation changes the
\* reader or writer list, and under every interleaving of concurrent
\* requests, each on its own buffer or File, every request returns what it
\* returns when run alone.
C9_DispatchReadOnlyAndIsolated ==
  phase = "dispatch" =>
    /\ _readers = regReaders
    /\ _writers = regWriters
    /\ \A t \in Threads :
         req[t].pc = "done" =>
           [ret |-> req[t].ret, os |-> req[t].os] = Alone(req[t])

\* C9 witness: a request that started while the other thread was in the
\* middle of its loop has visited two components and returned, the other
\* request being still in its loop.
C9_Witness ==
  \E t, u \in Threads :
    /\ t # u
    /\ req[t].pc = "done" /\ req[t].during /\ req[t].i >= 2
    /\ req[u].pc = "loop" /\ req[u].i >= 2
    /\ OnReaders(req[t].fn) = OnReaders(req[u].fn)

====
